---- MODULE Spec2Model ----
(***************************************************************************)
(* A model of src/eckey.c: the process-wide error record (error_type, ep), *)
(* key_load_file, key_from_sgx_ec256, key_shared_secret and key_perror.    *)
(*                                                                         *)
(* Every function is modelled as the sequence of its statements acting on  *)
(* a record of its locals.  Objects handed to the function by the library  *)
(* are counted in acq, objects the function gives back in rel, so that a   *)
(* leak or a double release is visible after the call.  Library calls are  *)
(* modelled by their OpenSSL 1.1 behaviour at the call site.               *)
(*                                                                         *)
(* Scaling: a coordinate is Width bytes of Base values each (32 bytes of   *)
(* 256 values in the program) and Curve is a short Weierstrass curve over  *)
(* a small prime field with a = -3, as P-256 has.                          *)
(***************************************************************************)
EXTENDS Integers, Sequences, FiniteSets, TLC

Base == 4

Width == 2

Curve == [p |-> 13, a |-> 10, b |-> 6]

NULL == "NULL"

e_none == "e_none"

e_crypto == "e_crypto"

e_system == "e_system"

Objs == {"fp", "pkey", "bn_gx", "bn_gy", "ec_key",
         "pctx", "params", "kctx", "key", "g_a", "sctx", "secret"}

ZeroObjs == [o \in Objs |-> 0]

Bytes == 0 .. (Base - 1)

Buffers == [1 .. Width -> Bytes]

AllWire == [gx : Buffers, gy : Buffers]

NoKey == [x |-> -1, y |-> -1]

Min(a, b) == IF a < b THEN a ELSE b

(***************************************************************************)
(* Big numbers.                                                            *)
(***************************************************************************)
RECURSIVE BeSum(_, _)
BeSum(buf, i) == IF i < 1 THEN 0 ELSE buf[i] + Base * BeSum(buf, i - 1)

RECURSIVE LeSum(_, _)
LeSum(buf, i) == IF i > Width THEN 0 ELSE buf[i] + Base * LeSum(buf, i + 1)

BN_bin2bn(buf) == BeSum(buf, Width)

\* BN_lebin2bn(buf, 32, NULL): buf[1] is the least significant byte.
BN_lebin2bn(buf) == LeSum(buf, 1)

(***************************************************************************)
(* The curve, and EC_KEY_set_public_key_affine_coordinates: the point is   *)
(* accepted when both coordinates are field elements and EC_KEY_check_key  *)
(* finds it on the curve.                                                  *)
(***************************************************************************)
OnCurve(x, y) ==
    (y * y) % Curve.p = (x * x * x + Curve.a * x + Curve.b) % Curve.p

SetAffineOk(x, y) == x < Curve.p /\ y < Curve.p /\ OnCurve(x, y)

\* (degree + 7) / 8 of the group: the bytes a field element takes.
RECURSIVE BytesFor(_)
BytesFor(n) == IF n < Base THEN 1 ELSE 1 + BytesFor(n \div Base)

FieldBytes == BytesFor(Curve.p - 1)

(***************************************************************************)
(* The error record.  g is [error_type, ep, errno].                        *)
(***************************************************************************)
Paths == {"missing.pem", "noperm.pem", "garbage.pem", "rsa.pem",
          "p256.pem", "p384.pem"}

Errnos == {"0", "ENOENT", "EACCES", "EBADF"}

\* fopen(filename, "r"): the errno of a failing open, "0" when it opens.
OpenErrno(path) ==
    CASE path = "missing.pem" -> "ENOENT"
      [] path = "noperm.pem"  -> "EACCES"
      [] OTHER                -> "0"

\* What PEM_read_PrivateKey finds in the file: no key, or a key of a type.
PemType(path) ==
    CASE path = "rsa.pem"  -> "RSA"
      [] path = "p256.pem" -> "P256"
      [] path = "p384.pem" -> "P384"
      [] OTHER             -> "none"

\* The kind the specification gives to a cause of failure.
KindOf(cause) ==
    CASE cause = "none" -> e_none
      [] cause = "open" -> e_system
      [] OTHER          -> e_crypto

\* Locals common to the three operations, after the entry statements.
Locals(g) ==
    [g |-> g, entry |-> g, ok |-> TRUE, cause |-> "none", writes |-> 0,
     acq |-> ZeroObjs, rel |-> ZeroObjs, goto |-> FALSE,
     eckey |-> NULL, opened |-> FALSE, failErrno |-> "0",
     gx |-> FALSE, gy |-> FALSE, x |-> -1, y |-> -1, key |-> FALSE,
     pub |-> NoKey,
     pctx |-> FALSE, params |-> FALSE, kctx |-> FALSE, ekey |-> FALSE,
     g_a |-> FALSE, sctx |-> FALSE, secret |-> FALSE, peerSet |-> FALSE,
     slen |-> 0, bufsize |-> 0, written |-> 0, libfail |-> FALSE]

Acquire(s, o) == [s EXCEPT !.acq[o] = @ + 1]

Release(s, o) == [s EXCEPT !.rel[o] = @ + 1]

\* error_type= e_crypto;
SetCrypto(s, cause) ==
    [s EXCEPT !.g.error_type = e_crypto, !.writes = @ + 1,
              !.ok = FALSE, !.cause = cause]

(***************************************************************************)
(* key_load_file                                                           *)
(***************************************************************************)
\* error_type= e_none;
load_entry(g) == [g EXCEPT !.error_type = e_none]

LoadOpenFail_noctx(s, filename) ==
    [s EXCEPT !.g.error_type = e_system, !.writes = @ + 1,
              !.g.errno = OpenErrno(filename),
              !.failErrno = OpenErrno(filename),
              !.ok = FALSE, !.cause = "open"]

\* fopen failed: error_type= e_system; ep= filename; return 0;
LoadOpenFail(s, filename) ==
    [s EXCEPT !.g.error_type = e_system, !.g.ep = filename, !.writes = @ + 1,
              !.g.errno = OpenErrno(filename),
              !.failErrno = OpenErrno(filename),
              !.ok = FALSE, !.cause = "open"]

\* PEM_read_PrivateKey(fp, &key, NULL, NULL): a parsed key replaces *x and
\* the library frees the container that was there; a failed parse leaves it.
LoadParse(s, filename) ==
    IF PemType(filename) = "none" THEN s
    ELSE Release(Acquire(s, "pkey"), "pkey")

\* fclose(fp);
LoadClose(s) == Release(s, "fp")

\* *eckey= EVP_PKEY_get1_EC_KEY(key); NULL unless the container holds an EC
\* key.  The handle is described by its curve.
LoadNarrow(s, filename) ==
    IF PemType(filename) \in {"P256", "P384"}
    THEN [s EXCEPT !.eckey = PemType(filename)]
    ELSE SetCrypto([s EXCEPT !.eckey = NULL],
                   IF PemType(filename) = "none" THEN "parse" ELSE "not_ec")

\* eckey0 is what the caller's *eckey holds before the call.
load_body(g, eckey0, filename) ==
    LET s0 == [Locals(g) EXCEPT !.eckey = eckey0]
        s1 == Acquire(s0, "pkey")
    IN  IF OpenErrno(filename) # "0" THEN LoadOpenFail(s1, filename)
        ELSE LET s2 == [Acquire(s1, "fp") EXCEPT !.opened = TRUE]
                 s3 == LoadParse(s2, filename)
                 s4 == LoadClose(s3)
             IN  LoadNarrow(s4, filename)

key_load_file(g, eckey0, filename) == load_body(load_entry(g), eckey0, filename)

(***************************************************************************)
(* key_from_sgx_ec256                                                      *)
(***************************************************************************)
SgxFaults == {"none", "gx", "gy", "new", "set"}

sgx_entry_noreset(g) == g

\* error_type= e_none;
sgx_entry(g) == [g EXCEPT !.error_type = e_none]

SgxSetFail_nofree(s, cause) ==
    SetCrypto([s EXCEPT !.key = FALSE], cause)

\* EC_KEY_free(key); key= NULL; error_type= e_crypto; goto cleanup;
SgxSetFail(s, cause) ==
    SetCrypto([Release(s, "ec_key") EXCEPT !.key = FALSE], cause)

\* cleanup: if ( gy != NULL ) BN_free(gy); if ( gx != NULL ) BN_free(gx);
SgxCleanup(s) ==
    LET s1 == IF s.gy THEN Release(s, "bn_gy") ELSE s
        s2 == IF s1.gx THEN Release(s1, "bn_gx") ELSE s1
    IN  [s2 EXCEPT !.pub = IF s2.key THEN [x |-> s2.x, y |-> s2.y] ELSE NoKey]

\* fault names the library call that fails for want of memory, if any.
sgx_body(g, k, fault) ==
    LET s0 == Locals(g)
    IN  IF fault = "gx" THEN SgxCleanup(SetCrypto(s0, "decode"))
        ELSE
        LET s1 == [Acquire(s0, "bn_gx") EXCEPT !.gx = TRUE,
                                               !.x = BN_lebin2bn(k.gx)]
        IN  IF fault = "gy" THEN SgxCleanup(SetCrypto(s1, "decode"))
            ELSE
            LET s2 == [Acquire(s1, "bn_gy") EXCEPT !.gy = TRUE,
                                                   !.y = BN_lebin2bn(k.gy)]
            IN  IF fault = "new" THEN SgxCleanup(SetCrypto(s2, "alloc"))
                ELSE
                LET s3 == [Acquire(s2, "ec_key") EXCEPT !.key = TRUE]
                IN  IF ~SetAffineOk(s3.x, s3.y)
                    THEN SgxCleanup(SgxSetFail(s3, "offcurve"))
                    ELSE IF fault = "set"
                    THEN SgxCleanup(SgxSetFail(s3, "alloc"))
                    ELSE SgxCleanup(s3)

key_from_sgx_ec256(g, k, fault) == sgx_body(sgx_entry(g), k, fault)

(***************************************************************************)
(* key_shared_secret.  The library calls are numbered in program order:    *)
(*   1 EVP_PKEY_CTX_new_id       2 EVP_PKEY_paramgen_init                  *)
(*   3 ..set_ec_paramgen_curve_nid   4 EVP_PKEY_paramgen                   *)
(*   5 EVP_PKEY_CTX_new(params)  6 EVP_PKEY_keygen_init                    *)
(*   7 EVP_PKEY_keygen           8 EVP_PKEY_new                            *)
(*   9 EVP_PKEY_set1_EC_KEY     10 EVP_PKEY_CTX_new(key)                   *)
(*  11 EVP_PKEY_derive_init     12 EVP_PKEY_derive_set_peer                *)
(*  13 EVP_PKEY_derive(NULL)    14 OPENSSL_malloc                          *)
(*  15 EVP_PKEY_derive(secret)                                             *)
(* A call returns "ok" (1 or a pointer), "zero" (0 or NULL) or "neg" (a    *)
(* negative value).  The program tests every result with !, so a negative  *)
(* result is taken for success.  The library returns a negative value from *)
(* paramgen and keygen when it cannot allocate the key it generates into   *)
(* (and then leaves *ppkey NULL), and from derive_set_peer when the peer's *)
(* parameters differ from the local key's (and then binds no peer); the    *)
(* latter is decided by the peer key, not drawn.                           *)
(***************************************************************************)
SSCalls == 1 .. 15

NegCalls == {4, 7}

Peers == {NULL, "P256", "P384"}

\* in is [peer, zeroAt, negAt]: the key passed as ec_g_a, and the calls that
\* fail of themselves (0 for none).
SSRes(i, s, in) ==
    CASE i = 5  /\ ~s.params          -> "zero"
      [] i = 9  /\ in.peer = NULL     -> "zero"
      [] i = 10 /\ ~s.ekey            -> "zero"
      [] i = 12 /\ in.peer # "P256"   -> "neg"
      [] i = 13 /\ ~s.peerSet         -> "zero"
      [] i = 14 /\ s.slen = 0         -> "zero"
      [] i = 15 /\ ~s.peerSet         -> "zero"
      [] OTHER -> IF in.zeroAt = i THEN "zero"
                  ELSE IF in.negAt = i THEN "neg" ELSE "ok"

\* *slen= 0; error_type= e_none;
ss_entry(g) == [g EXCEPT !.error_type = e_none]

SSFail_twice(s, cause) ==
    [SetCrypto(SetCrypto(s, cause), cause) EXCEPT !.goto = TRUE]

\* error_type= e_crypto; goto cleanup;
SSFail(s, cause) == [SetCrypto(s, cause) EXCEPT !.goto = TRUE]

SSAlloc_short(s) ==
    [Acquire(s, "secret") EXCEPT !.secret = TRUE, !.bufsize = s.slen - 1]

\* secret= OPENSSL_malloc(*slen);
SSAlloc(s) ==
    [Acquire(s, "secret") EXCEPT !.secret = TRUE, !.bufsize = s.slen]

\* EVP_PKEY_derive(sctx, secret, slen) succeeding: the library writes at most
\* *slen bytes of the field element and stores the count in *slen.
SSDerive(s) ==
    [s EXCEPT !.written = Min(s.slen, FieldBytes),
              !.slen = Min(s.slen, FieldBytes)]

\* error_type= e_crypto; OPENSSL_free(secret); secret= NULL;
SSDeriveFail(s) ==
    [Release(SetCrypto(s, "derive"), "secret") EXCEPT !.secret = FALSE]

\* One library call and the test that follows it.
SSStep(i, s, in) ==
    LET r == SSRes(i, s, in)
    IN  CASE i = 1 -> IF r = "zero" THEN SSFail(s, "alloc")
                      ELSE [Acquire(s, "pctx") EXCEPT !.pctx = TRUE]
          [] i \in {2, 3} -> IF r = "zero" THEN SSFail(s, "paramgen") ELSE s
          [] i = 4 -> IF r = "zero" THEN SSFail(s, "paramgen")
                      ELSE IF r = "neg" THEN s
                      ELSE [Acquire(s, "params") EXCEPT !.params = TRUE]
          [] i = 5 -> IF r = "zero" THEN SSFail(s, "alloc")
                      ELSE [Acquire(s, "kctx") EXCEPT !.kctx = TRUE]
          [] i = 6 -> IF r = "zero" THEN SSFail(s, "keygen") ELSE s
          [] i = 7 -> IF r = "zero" THEN SSFail(s, "keygen")
                      ELSE IF r = "neg" THEN s
                      ELSE [Acquire(s, "key") EXCEPT !.ekey = TRUE]
          [] i = 8 -> IF r = "zero" THEN SSFail(s, "alloc")
                      ELSE [Acquire(s, "g_a") EXCEPT !.g_a = TRUE]
          [] i = 9 -> IF r = "zero" THEN SSFail(s, "wrap") ELSE s
          [] i = 10 -> IF r = "zero" THEN SSFail(s, "alloc")
                       ELSE [Acquire(s, "sctx") EXCEPT !.sctx = TRUE]
          [] i = 11 -> IF r = "zero" THEN SSFail(s, "derive") ELSE s
          [] i = 12 -> IF r = "zero" THEN SSFail(s, "derive")
                       ELSE IF r = "neg" THEN s
                       ELSE [s EXCEPT !.peerSet = TRUE]
          [] i = 13 -> IF r = "zero" THEN SSFail(s, "length")
                       ELSE [s EXCEPT !.slen = FieldBytes]
          [] i = 14 -> IF r = "zero" THEN SSFail(s, "alloc") ELSE SSAlloc(s)
          [] i = 15 -> IF r = "zero" THEN SSDeriveFail(s) ELSE SSDerive(s)

RECURSIVE SSRun(_, _, _)
SSRun(i, s, in) ==
    IF i > 15 \/ s.goto THEN s
    ELSE SSRun(i + 1, [SSStep(i, s, in) EXCEPT
                          !.libfail = @ \/ SSRes(i, s, in) # "ok"], in)

SSFree(s, held, o) == IF held THEN Release(s, o) ELSE s

SSCleanup_leak(s) ==
    LET s1 == SSFree(s, s.sctx, "sctx")
        s3 == SSFree(s1, s.ekey, "key")
        s4 == SSFree(s3, s.kctx, "kctx")
        s5 == SSFree(s4, s.params, "params")
    IN  SSFree(s5, s.pctx, "pctx")

\* cleanup: every pointer that is not NULL is freed, in reverse order.
SSCleanup(s) ==
    LET s1 == SSFree(s, s.sctx, "sctx")
        s2 == SSFree(s1, s.g_a, "g_a")
        s3 == SSFree(s2, s.ekey, "key")
        s4 == SSFree(s3, s.kctx, "kctx")
        s5 == SSFree(s4, s.params, "params")
    IN  SSFree(s5, s.pctx, "pctx")

ss_body(g, in) == SSCleanup(SSRun(1, Locals(g), in))

key_shared_secret(g, in) == ss_body(ss_entry(g), in)

(***************************************************************************)
(* key_perror.  The text of a report is the kind that was rendered, and    *)
(* for a system error the context and the errno perror reads.              *)
(***************************************************************************)
NoReport == [kind |-> "unset", ctx |-> NULL, err |-> "0"]

\* fprintf(stderr, "%s: ", prefix): a failing write sets errno.
PerrorPrefix(g, stderrOk) ==
    IF stderrOk THEN g ELSE [g EXCEPT !.errno = "EBADF"]

PerrorRender_swapped(g) ==
    IF g.error_type = e_none THEN [NoReport EXCEPT !.kind = e_crypto]
    ELSE IF g.error_type = e_system
    THEN [kind |-> e_system, ctx |-> g.ep, err |-> g.errno]
    ELSE [NoReport EXCEPT !.kind = e_none]

\* "no error", perror(ep) or ERR_print_errors_fp(stderr).
PerrorRender(g) ==
    IF g.error_type = e_none THEN [NoReport EXCEPT !.kind = e_none]
    ELSE IF g.error_type = e_system
    THEN [kind |-> e_system, ctx |-> g.ep, err |-> g.errno]
    ELSE [NoReport EXCEPT !.kind = e_crypto]

(***************************************************************************)
(* The program as a state machine: one caller making calls in sequence.    *)
(***************************************************************************)
VARIABLES error_type, ep, errno, eckey, wire, last, out, acquired, released,
          failErrno, report, serialized, lock, tpc, top, tret, trep

vars == <<error_type, ep, errno, eckey, wire, last, out, acquired, released,
          failErrno, report, serialized, lock, tpc, top, tret, trep>>

seqvars == <<eckey, wire, last, out, acquired, released, failErrno, report>>

thrvars == <<serialized, lock, tpc, top, tret, trep>>

Threads == {1, 2}

OpNames == {"key_load_file", "key_from_sgx_ec256", "key_shared_secret"}

G == [error_type |-> error_type, ep |-> ep, errno |-> errno]

E0 == [error_type |-> e_none, ep |-> NULL]

NoCall == [op |-> "none", ok |-> TRUE, cause |-> "none", writes |-> 0,
           ep0 |-> NULL, eckey0 |-> NULL, entry |-> E0, path |-> NULL, opened |-> FALSE,
           libfail |-> FALSE]

NoOut == [key |-> NoKey, secret |-> FALSE, slen |-> 0, bufsize |-> 0,
          written |-> 0]

ValidPoints ==
    {pt \in [x : 0 .. (Curve.p - 1), y : 0 .. (Curve.p - 1)] :
        OnCurve(pt.x, pt.y)}

WireValid(w) == SetAffineOk(BN_lebin2bn(w.gx), BN_lebin2bn(w.gy))

\* The messages the sequential caller holds: one valid, one rejected.
SampleWire ==
    {CHOOSE w \in AllWire : WireValid(w), CHOOSE w \in AllWire : ~WireValid(w)}

InitCommon ==
    /\ error_type = e_none
    /\ ep = NULL
    /\ errno = "0"
    /\ eckey = NULL
    /\ last = NoCall
    /\ out = NoOut
    /\ acquired = ZeroObjs
    /\ released = ZeroObjs
    /\ failErrno = "0"
    /\ report = NoReport
    /\ lock = 0
    /\ tpc = [t \in Threads |-> "idle"]
    /\ top = [t \in Threads |-> "none"]
    /\ tret = [t \in Threads |-> "unset"]
    /\ trep = [t \in Threads |-> "unset"]

Init == InitCommon /\ wire \in SampleWire /\ serialized = FALSE

\* The state a call leaves: the globals, the results and the bookkeeping.
Return(op, s, path) ==
    /\ error_type' = s.g.error_type
    /\ ep' = s.g.ep
    /\ errno' = s.g.errno
    /\ eckey' = IF op = "key_load_file" THEN s.eckey ELSE eckey
    /\ last' = [op |-> op, ok |-> s.ok, cause |-> s.cause,
                writes |-> s.writes, ep0 |-> ep, eckey0 |-> eckey,
                entry |-> [error_type |-> s.entry.error_type,
                           ep |-> s.entry.ep],
                path |-> path, opened |-> s.opened, libfail |-> s.libfail]
    /\ out' = [key |-> s.pub, secret |-> s.secret, slen |-> s.slen,
               bufsize |-> s.bufsize, written |-> s.written]
    /\ acquired' = s.acq
    /\ released' = s.rel
    /\ failErrno' = s.failErrno
    /\ report' = NoReport
    /\ UNCHANGED <<wire, thrvars>>

Call_key_load_file ==
    \E filename \in Paths :
        Return("key_load_file", key_load_file(G, eckey, filename), filename)

Call_key_from_sgx_ec256 ==
    \E fault \in SgxFaults :
        Return("key_from_sgx_ec256", key_from_sgx_ec256(G, wire, fault), NULL)

Call_key_shared_secret ==
    \E in \in [peer : Peers, zeroAt : {0} \cup SSCalls,
               negAt : {0} \cup NegCalls] :
        Return("key_shared_secret", key_shared_secret(G, in), NULL)

Call_key_perror ==
    \E stderrOk \in BOOLEAN :
        LET g == PerrorPrefix(G, stderrOk)
        IN  /\ errno' = g.errno
            /\ report' = PerrorRender(g)
            /\ UNCHANGED <<error_type, ep, eckey, wire, last, out, acquired,
                           released, failErrno, thrvars>>

\* Any other call of the process that sets errno.
UnrelatedCall ==
    \E e \in Errnos \ {errno} :
        /\ errno' = e
        /\ UNCHANGED <<error_type, ep, seqvars, thrvars>>

Next ==
    \/ Call_key_load_file
    \/ Call_key_from_sgx_ec256
    \/ Call_key_shared_secret
    \/ Call_key_perror
    \/ UnrelatedCall

Spec == Init /\ [][Next]_vars

(***************************************************************************)
(* key_from_sgx_ec256 applied to every coordinate pair.                    *)
(***************************************************************************)
PointInit == InitCommon /\ wire \in AllWire /\ serialized = FALSE

PointNext == Call_key_from_sgx_ec256

PointSpec == PointInit /\ [][PointNext]_vars

(***************************************************************************)
(* Two threads, each running an operation and then key_perror, on the one  *)
(* error record.  An operation is two steps, its entry statement and the   *)
(* rest.  When serialized, a thread holds lock from the entry of its       *)
(* operation to the end of its report.                                     *)
(***************************************************************************)
ThreadInit == InitCommon /\ wire \in SampleWire /\ serialized \in BOOLEAN

Entry(op, g) ==
    CASE op = "key_load_file"      -> load_entry(g)
      [] op = "key_from_sgx_ec256" -> sgx_entry(g)
      [] OTHER                     -> ss_entry(g)

\* The callers' discipline: when serialized, one thread at a time is between
\* the entry of its operation and the end of its report.
MayEnter(t) == serialized => lock = 0

Take(t) == IF serialized THEN t ELSE lock

Give(t) == IF serialized THEN 0 ELSE lock

T_Enter(t) ==
    /\ tpc[t] = "idle"
    /\ MayEnter(t)
    /\ \E op \in OpNames :
        /\ top' = [top EXCEPT ![t] = op]
        /\ error_type' = Entry(op, G).error_type
    /\ lock' = Take(t)
    /\ tpc' = [tpc EXCEPT ![t] = "body"]
    /\ UNCHANGED <<ep, errno, seqvars, serialized, tret, trep>>

T_Finish_with(t, s) ==
    /\ error_type' = s.g.error_type
    /\ ep' = s.g.ep
    /\ errno' = s.g.errno
    /\ tret' = [tret EXCEPT ![t] = KindOf(s.cause)]
    /\ tpc' = [tpc EXCEPT ![t] = "ret"]
    /\ UNCHANGED <<seqvars, serialized, lock, top, trep>>

T_Finish(t) ==
    /\ tpc[t] = "body"
    /\ \/ /\ top[t] = "key_load_file"
          /\ \E filename \in Paths :
                T_Finish_with(t, load_body(G, NULL, filename))
       \/ /\ top[t] = "key_from_sgx_ec256"
          /\ \E fault \in SgxFaults : T_Finish_with(t, sgx_body(G, wire, fault))
       \/ /\ top[t] = "key_shared_secret"
          /\ \E in \in [peer : Peers, zeroAt : {0} \cup SSCalls, negAt : {0}] :
                T_Finish_with(t, ss_body(G, in))

T_Report(t) ==
    /\ tpc[t] = "ret"
    /\ trep' = [trep EXCEPT ![t] = PerrorRender(G).kind]
    /\ tpc' = [tpc EXCEPT ![t] = "idle"]
    /\ lock' = Give(t)
    /\ UNCHANGED <<error_type, ep, errno, seqvars, serialized, top, tret>>

ThreadNext == \E t \in Threads : T_Enter(t) \/ T_Finish(t) \/ T_Report(t)

ThreadSpec == ThreadInit /\ [][ThreadNext]_vars

(***************************************************************************)
(* Properties.                                                             *)
(***************************************************************************)
RECURSIVE Pow(_, _)
Pow(b, n) == IF n = 0 THEN 1 ELSE b * Pow(b, n - 1)

\* The sender's encodings of a coordinate in Width bytes.
LeEncode(n) == [i \in 1 .. Width |-> (n \div Pow(Base, i - 1)) % Base]

BeEncode(n) == [i \in 1 .. Width |-> (n \div Pow(Base, Width - i)) % Base]

LeWire(pt) == [gx |-> LeEncode(pt.x), gy |-> LeEncode(pt.y)]

BeWire(pt) == [gx |-> BeEncode(pt.x), gy |-> BeEncode(pt.y)]

SSIntermediates == {"pctx", "params", "kctx", "key", "g_a", "sctx"}

IsSS == last.op = "key_shared_secret"

IsSgx == last.op = "key_from_sgx_ec256"

IsLoad == last.op = "key_load_file"

\* C1: after key_shared_secret, whenever a library call failed no secret is
\* returned, every intermediate object that was acquired has been released
\* exactly once, and a secret buffer that is not returned has been freed.
C1_SecretCleanup ==
    IsSS =>
        /\ last.libfail => (~last.ok /\ ~out.secret)
        /\ ~last.ok => ~out.secret
        /\ \A o \in SSIntermediates :
              acquired[o] <= 1 /\ released[o] = acquired[o]
        /\ acquired["secret"] <= 1
        /\ released["secret"] = IF out.secret THEN 0 ELSE acquired["secret"]

C1_Witness ==
    /\ IsSS
    /\ ~last.ok
    /\ acquired["secret"] = 1
    /\ \A o \in SSIntermediates : acquired[o] = 1

\* C2: key_from_sgx_ec256 on a pair that is not a point of the curve, or
\* whose decoding fails, returns NULL, leaves error_type e_crypto and has
\* released the key object and the big numbers it had obtained.
C2_OffCurveRejected ==
    (IsSgx /\ (~WireValid(wire) \/ last.cause = "decode")) =>
        /\ ~last.ok
        /\ out.key = NoKey
        /\ error_type = e_crypto
        /\ \A o \in {"bn_gx", "bn_gy", "ec_key"} :
              acquired[o] <= 1 /\ released[o] = acquired[o]

C2_Witness ==
    /\ IsSgx
    /\ ~WireValid(wire)
    /\ last.cause = "offcurve"
    /\ acquired["ec_key"] = 1

\* The call ran without the library running out of memory.
SgxNoFault == IsSgx /\ last.cause \notin {"decode", "alloc"}

C4_SecretLength ==
    (IsSS /\ out.secret) =>
        /\ last.ok
        /\ out.slen > 0
        /\ out.slen = out.written
        /\ out.slen <= out.bufsize
        /\ out.slen = FieldBytes

C4_Witness == IsSS /\ out.secret /\ out.written > 0

\* C5: after every call of the three operations error_type is the kind of
\* that call's outcome: none after a success, the failure's kind after a
\* failure, whatever the record held before.
C5_ErrorReflectsLastCall ==
    last.op \in OpNames =>
        /\ last.ok <=> last.cause = "none"
        /\ error_type = KindOf(last.cause)

C5_Witness ==
    /\ last.op \in OpNames
    /\ last.ok
    /\ error_type = e_none
    /\ ep # NULL

WritesOnce == last.writes = IF last.ok THEN 0 ELSE 1

C7_FileHandle ==
    IsLoad =>
        /\ OpenErrno(last.path) # "0" =>
              /\ ~last.ok
              /\ error_type = e_system
              /\ ep = last.path
              /\ acquired["fp"] = 0
        /\ last.opened => acquired["fp"] = 1
        /\ released["fp"] = acquired["fp"]

C7_Witness == IsLoad /\ last.path = "missing.pem" /\ ~last.ok

\* C8: a report of a system failure shows the context of the failed open
\* and the errno the open failed with.
C8_ReportsCapturedErrno ==
    report.kind = e_system =>
        /\ report.ctx = last.path
        /\ report.err = failErrno

\* C9: every key container key_load_file obtains is released when it
\* returns, and a failing call hands no key handle to the caller.
C9_NoKeyObjectOutlives ==
    IsLoad =>
        /\ released["pkey"] = acquired["pkey"]
        /\ ~last.ok => eckey \in {NULL, last.eckey0}

\* C10: when each thread's operation and report are serialized, a thread's
\* report shows the kind of its own operation's outcome.
C10_SerializedReports ==
    serialized =>
        \A t \in Threads :
            (tpc[t] = "idle" /\ trep[t] # "unset") => trep[t] = tret[t]

\* Without the serialization a report can show another thread's outcome.
C10_Witness ==
    /\ ~serialized
    /\ \E t \in Threads :
          tpc[t] = "idle" /\ trep[t] # "unset" /\ trep[t] # tret[t]

====
